---- MODULE Spec2Model ----
(***************************************************************************)
(* A model of fast_tort_cli/cli.py: the dependency upgrade planner         *)
(* (UpgradeDependencies) that reads the dependency sections of a           *)
(* pyproject.toml and assembles `poetry add ...@latest` commands.          *)
(* The commands BumpUp, LintCode and GitTag generate, and the way           *)
(* exit_if_run_failed runs them, are modelled as well.                     *)
(*                                                                         *)
(* Python strings are TLA+ strings; the str methods the code uses are      *)
(* defined below character by character (Len, SubSeq, Head, Tail and \o    *)
(* work on strings).                                                       *)
(***************************************************************************)
EXTENDS Integers, Sequences, FiniteSets, TLC

\* ------------------------------------------------------------------------
\* Python str methods
\* ------------------------------------------------------------------------

\* s[i:] and s[:i] with 1-based i
From(s, i) == SubSeq(s, i, Len(s))
Upto(s, i) == SubSeq(s, 1, i)

\* str.startswith
startswith(s, p) == Len(s) >= Len(p) /\ SubSeq(s, 1, Len(p)) = p

\* str.find, 1-based; 0 when sub does not occur
find(s, sub) ==
    LET I == {i \in 1..(Len(s) - Len(sub) + 1) : SubSeq(s, i, i + Len(sub) - 1) = sub}
    IN  IF I = {} THEN 0 ELSE CHOOSE i \in I : \A j \in I : i <= j

\* sub in s
contains(s, sub) == find(s, sub) # 0

\* the characters str.strip() removes when called without argument
Whitespace == {" ", "\t", "\n", "\r", "\f"}

RECURSIVE lstrip(_, _)
lstrip(s, cs) == IF s = "" \/ Head(s) \notin cs THEN s ELSE lstrip(Tail(s), cs)

RECURSIVE rstrip(_, _)
rstrip(s, cs) ==
    IF s = "" \/ SubSeq(s, Len(s), Len(s)) \notin cs THEN s
    ELSE rstrip(Upto(s, Len(s) - 1), cs)

\* str.strip(chars)
strip(s, cs) == rstrip(lstrip(s, cs), cs)

\* str.split(sep)[0]
before(s, sep) == LET i == find(s, sep) IN IF i = 0 THEN s ELSE Upto(s, i - 1)

\* str.split(sep, 1)[-1]
after(s, sep) == LET i == find(s, sep) IN IF i = 0 THEN s ELSE From(s, i + Len(sep))

\* str.split(sep): every piece, in order
RECURSIVE split(_, _)
split(s, sep) ==
    LET i == find(s, sep)
    IN  IF i = 0 THEN <<s>> ELSE <<Upto(s, i - 1)>> \o split(From(s, i + Len(sep)), sep)

\* str.replace(old, new)
RECURSIVE replace(_, _, _)
replace(s, old, new) ==
    LET i == find(s, old)
    IN  IF i = 0 THEN s
        ELSE Upto(s, i - 1) \o new \o replace(From(s, i + Len(old)), old, new)

\* str.splitlines(): the pieces between line breaks, without a last empty piece
splitlines(s) ==
    LET ps == split(s, "\n")
    IN  IF ps[Len(ps)] = "" THEN SubSeq(ps, 1, Len(ps) - 1) ELSE ps

UpperChars == "ABCDEFGHIJKLMNOPQRSTUVWXYZ"
LowerChars == "abcdefghijklmnopqrstuvwxyz"

\* str.lower
RECURSIVE lower(_)
lower(s) ==
    IF s = "" THEN ""
    ELSE LET i == find(UpperChars, Head(s))
         IN  (IF i = 0 THEN Head(s) ELSE SubSeq(LowerChars, i, i)) \o lower(Tail(s))

\* str.isdigit of one character
isdigit(c) == c \in {"0", "1", "2", "3", "4", "5", "6", "7", "8", "9"}

\* " ".join(xs)
RECURSIVE join(_, _)
join(sep, xs) ==
    IF xs = <<>> THEN ""
    ELSE IF Len(xs) = 1 THEN xs[1]
    ELSE xs[1] \o sep \o join(sep, Tail(xs))

\* ------------------------------------------------------------------------
\* UpgradeDependencies
\* ------------------------------------------------------------------------

\* parse_value that reads an array as a bare token
parse_value_no_array(version_info, key) ==
    LET sep  == key \o " = "
        rest == strip(after(version_info, sep), {" ", "="})
        val  == IF startswith(rest, "\"") THEN before(From(rest, 2), "\"")
                ELSE before(before(rest, ","), "}")
    IN  replace(strip(val, Whitespace), "\"", "")

\* parse_value that ends a bare token at a comma only
parse_value_comma_only(version_info, key) ==
    LET sep  == key \o " = "
        rest == strip(after(version_info, sep), {" ", "="})
        val  == IF startswith(rest, "[") THEN before(From(rest, 2), "]")
                ELSE IF startswith(rest, "\"") THEN before(From(rest, 2), "\"")
                ELSE before(rest, ",")
    IN  replace(strip(val, Whitespace), "\"", "")

\* parse_value(version_info, key): the value of field `key` of an inline table
parse_value(version_info, key) ==
    LET sep  == key \o " = "
        rest == strip(after(version_info, sep), {" ", "="})
        val  == IF startswith(rest, "[") THEN before(From(rest, 2), "]")
                ELSE IF startswith(rest, "\"") THEN before(From(rest, 2), "\"")
                ELSE before(before(rest, ","), "}")
    IN  replace(strip(val, Whitespace), "\"", "")

\* version_text without the look into the version field of an inline table
version_text_whole(version_info) == replace(version_info, " ", "")

\* The version text no_need_upgrade compares: spaces removed, and the value of
\* the version field when the text has one.
version_text(version_info) ==
    LET v == replace(version_info, " ", "")
        f == "version="
    IN  IF contains(v, f)
        THEN before(strip(split(v, f)[2], {"\""}), "\"")
        ELSE v

\* no_need_upgrade without the digit test of its last condition
no_need_upgrade_nodigit(version_info, line) ==
    LET v0 == replace(version_info, " ", "")
        v  == version_text(version_info)
    IN  IF startswith(v0, "{url=")
        THEN [ret |-> TRUE, echo |-> "No need to upgrade for: " \o line, exc |-> "none"]
        ELSE IF v = "*"
        THEN [ret |-> TRUE, echo |-> "Skip wildcard line: " \o line, exc |-> "none"]
        ELSE IF startswith(v, ">") \/ startswith(v, "<")
        THEN [ret |-> TRUE, echo |-> "Ignore bigger/smaller/equal: " \o line, exc |-> "none"]
        ELSE [ret |-> FALSE, echo |-> "", exc |-> "none"]

\* no_need_upgrade looking for "{url=" before the spaces are removed
no_need_upgrade_spaced_url(version_info, line) ==
    LET v  == version_text(version_info)
    IN  IF startswith(version_info, "{url=")
        THEN [ret |-> TRUE, echo |-> "No need to upgrade for: " \o line, exc |-> "none"]
        ELSE IF v = "*"
        THEN [ret |-> TRUE, echo |-> "Skip wildcard line: " \o line, exc |-> "none"]
        ELSE IF startswith(v, ">") \/ startswith(v, "<")
        THEN [ret |-> TRUE, echo |-> "Ignore bigger/smaller/equal: " \o line, exc |-> "none"]
        ELSE IF v = ""
        THEN [ret |-> FALSE, echo |-> "", exc |-> "IndexError"]
        ELSE IF isdigit(Head(v))
        THEN [ret |-> TRUE, echo |-> "Ignore bigger/smaller/equal: " \o line, exc |-> "none"]
        ELSE [ret |-> FALSE, echo |-> "", exc |-> "none"]

\* no_need_upgrade(version_info, line): [ret, echo, exc]; exc is the exception
\* that escapes (v[0] of an empty v raises IndexError), echo the notice echoed.
no_need_upgrade(version_info, line) ==
    LET v0 == replace(version_info, " ", "")
        v  == version_text(version_info)
    IN  IF startswith(v0, "{url=")
        THEN [ret |-> TRUE, echo |-> "No need to upgrade for: " \o line, exc |-> "none"]
        ELSE IF v = "*"
        THEN [ret |-> TRUE, echo |-> "Skip wildcard line: " \o line, exc |-> "none"]
        ELSE IF startswith(v, ">") \/ startswith(v, "<")
        THEN [ret |-> TRUE, echo |-> "Ignore bigger/smaller/equal: " \o line, exc |-> "none"]
        ELSE IF v = ""
        THEN [ret |-> FALSE, echo |-> "", exc |-> "IndexError"]
        ELSE IF isdigit(Head(v))
        THEN [ret |-> TRUE, echo |-> "Ignore bigger/smaller/equal: " \o line, exc |-> "none"]
        ELSE [ret |-> FALSE, echo |-> "", exc |-> "none"]

\* upgrade_item that forgets the extras
upgrade_item_plain(package, version_info) == "\"" \o package \o "@latest\""

\* item = f'"{package}@latest"', the package name extended by its extras
upgrade_item(package, version_info) ==
    LET p == IF contains(version_info, "extras")
             THEN package \o "[" \o parse_value(version_info, "extras") \o "]"
             ELSE package
    IN  "\"" \o p \o "@latest\""

\* flag_key that looks at the source field before the platform field
flag_key_source_first(version_info) ==
    LET k1 == IF contains(version_info, "source")
              THEN <<"--source=" \o parse_value(version_info, "source")>>
              ELSE <<>>
        k2 == IF contains(version_info, "platform")
              THEN <<(IF k1 = <<>> THEN "" ELSE k1[1] \o " ")
                     \o "--platform=" \o parse_value(version_info, "platform")>>
              ELSE k1
    IN  IF contains(version_info, "optional = true")
        THEN <<(IF k2 = <<>> THEN "" ELSE k2[1] \o " ") \o "--optional">>
        ELSE k2

\* key as build_args computes it: <<>> for None, <<s>> for the string s
flag_key(version_info) ==
    LET k1 == IF contains(version_info, "platform")
              THEN <<"--platform=" \o parse_value(version_info, "platform")>>
              ELSE <<>>
        k2 == IF contains(version_info, "source")
              THEN <<(IF k1 = <<>> THEN "" ELSE k1[1] \o " ")
                     \o "--source=" \o parse_value(version_info, "source")>>
              ELSE k1
    IN  IF contains(version_info, "optional = true")
        THEN <<(IF k2 = <<>> THEN "" ELSE k2[1] \o " ") \o "--optional">>
        ELSE k2

\* dict_add as specials[key] = [item]: the earlier items of the key are lost
dict_add_overwrite(specials, key, item) ==
    IF \E j \in 1..Len(specials) : specials[j].k = key
    THEN [j \in 1..Len(specials) |->
            IF specials[j].k = key THEN [k |-> key, v |-> <<item>>] ELSE specials[j]]
    ELSE Append(specials, [k |-> key, v |-> <<item>>])

\* dict_add as specials[key] = [item] + specials.get(key, [])
dict_add_front(specials, key, item) ==
    IF \E j \in 1..Len(specials) : specials[j].k = key
    THEN [j \in 1..Len(specials) |->
            IF specials[j].k = key
            THEN [k |-> key, v |-> <<item>> \o specials[j].v]
            ELSE specials[j]]
    ELSE Append(specials, [k |-> key, v |-> <<item>>])

\* specials[key] = specials.get(key, []) + [item]: a dict keeps insertion order
dict_add(specials, key, item) ==
    IF \E j \in 1..Len(specials) : specials[j].k = key
    THEN [j \in 1..Len(specials) |->
            IF specials[j].k = key
            THEN [k |-> key, v |-> Append(specials[j].v, item)]
            ELSE specials[j]]
    ELSE Append(specials, [k |-> key, v |-> <<item>>])

\* is_runtime_marker without lower()
is_runtime_marker_exact(package) == package = "python"

\* package.strip().lower() == "python"
is_runtime_marker(package) == lower(package) = "python"

\* One iteration of build_args's loop on the accumulated st = [args, specials,
\* echo, exc]: exc is the exception the iteration raises, echo the notices
\* echoed so far.
build_line(st, line) ==
    LET m == strip(line, Whitespace)
    IN  IF m = "" \/ startswith(m, "#") THEN st
        ELSE IF ~contains(m, "=") THEN [st EXCEPT !.exc = "ParseError"]
        ELSE
          LET package      == strip(before(m, "="), Whitespace)
              version_info == strip(after(m, "="), {" ", "\""})
              skip         == no_need_upgrade(version_info, line)
              key          == flag_key(version_info)
              item         == upgrade_item(package, version_info)
          IN  IF is_runtime_marker(package) THEN st
              ELSE IF skip.exc # "none" THEN [st EXCEPT !.exc = skip.exc]
              ELSE IF skip.ret THEN [st EXCEPT !.echo = Append(@, skip.echo)]
              ELSE IF key # <<>>
              THEN [st EXCEPT !.specials = dict_add(@, key[1], item)]
              ELSE [st EXCEPT !.args = Append(@, item)]

\* The for loop of build_args; a raised exception ends it.
RECURSIVE build_loop(_, _)
build_loop(st, package_lines) ==
    IF package_lines = <<>> \/ st.exc # "none" THEN st
    ELSE build_loop(build_line(st, Head(package_lines)), Tail(package_lines))

\* parse_item's loop over the lines left, lines being the list built so far
RECURSIVE parse_lines(_, _)
parse_lines(rest, lines) ==
    IF rest = <<>> THEN lines
    ELSE LET line == strip(Head(rest), Whitespace)
         IN  IF startswith(line, "[")
             THEN (IF lines # <<>> THEN lines ELSE parse_lines(Tail(rest), lines))
             ELSE IF line # "" THEN parse_lines(Tail(rest), Append(lines, line))
             ELSE parse_lines(Tail(rest), lines)

\* parse_item(toml_str)
parse_item(toml_str) == parse_lines(splitlines(toml_str), <<>>)

main_title == "[tool.poetry.dependencies]"
DevFlag_new == "[tool.poetry.group.dev.dependencies]"
DevFlag_old == "[tool.poetry.dev-dependencies]"

\* split_sections that tries the legacy header first
split_sections_old_first(toml_text) ==
    LET pieces    == split(toml_text, main_title)
        text      == pieces[Len(pieces)]
        is_old    == contains(text, DevFlag_old)
        dev_title == IF is_old THEN DevFlag_old ELSE DevFlag_new
        parts     == split(text, dev_title)
        main_toml == IF Len(parts) = 2 THEN parts[1] ELSE text
        dev_toml  == IF Len(parts) = 2 THEN parts[2] ELSE ""
    IN  [dev_flag |-> IF is_old THEN "--dev" ELSE "--group dev",
         mains    |-> parse_item(main_toml),
         devs     |-> parse_item(dev_toml)]

\* get_args up to its calls of parse_item: [dev_flag, mains, devs]
split_sections(toml_text) ==
    LET pieces    == split(toml_text, main_title)
        text      == pieces[Len(pieces)]
        is_new    == contains(text, DevFlag_new)
        dev_title == IF is_new THEN DevFlag_new ELSE DevFlag_old
        parts     == split(text, dev_title)
        main_toml == IF Len(parts) = 2 THEN parts[1] ELSE text
        dev_toml  == IF Len(parts) = 2 THEN parts[2] ELSE ""
    IN  [dev_flag |-> IF is_new THEN "--group dev" ELSE "--dev",
         mains    |-> parse_item(main_toml),
         devs     |-> parse_item(dev_toml)]

\* [[k] + v for k, v in specials.items()]
main_groups(sp) == [j \in 1..Len(sp) |-> <<sp[j].k>> \o sp[j].v]

\* dev_groups that forgets the dev flag
dev_groups_unflagged(sp, flag) == [j \in 1..Len(sp) |-> <<sp[j].k>> \o sp[j].v]

\* [[k] + v + [dev_flag] for k, v in specials.items()]
dev_groups(sp, flag) == [j \in 1..Len(sp) |-> <<sp[j].k>> \o sp[j].v \o <<flag>>]

\* to_cmd's loop: for single in others: upgrade += f" && poetry add {...}"
RECURSIVE add_singles(_, _)
add_singles(upgrade_so_far, singles) ==
    IF singles = <<>> THEN upgrade_so_far
    ELSE add_singles(upgrade_so_far \o " && poetry add " \o join(" ", Head(singles)),
                     Tail(singles))

\* to_cmd(main_args, dev_args, others, dev_flags)
to_cmd(main_args, dev_args, singles, dev_flags) ==
    LET command == "poetry add "
        first   == IF main_args # <<>> THEN command \o join(" ", main_args) ELSE ""
        second  == IF dev_args # <<>>
                   THEN (IF first # "" THEN first \o " && " ELSE first)
                        \o command \o dev_flags \o " " \o join(" ", dev_args)
                   ELSE first
    IN  add_singles(second, singles)

\* ------------------------------------------------------------------------
\* Dependency declarations the lines are written from
\* ------------------------------------------------------------------------
\* A declaration is [kind, name, bare, fields, text]:
\*   kind "bare":  name = "<bare>"
\*   kind "table": name = {<field> = <value>, ...}
\*   kind "blank", "comment", "malformed" (no `=`), "unquoted" (name =): text
\* A field is [k, v, sep]: v the value (the elements of an array), sep the
\* separator written between the elements of an array.

Fld(k, v) == [k |-> k, v |-> <<v>>, sep |-> ""]
Arr(k, v, sep) == [k |-> k, v |-> v, sep |-> sep]

Bare(name, version) ==
    [kind |-> "bare", name |-> name, bare |-> version, fields |-> <<>>, text |-> ""]
Table(name, fields) ==
    [kind |-> "table", name |-> name, bare |-> "", fields |-> fields, text |-> ""]
Raw(kind, text) ==
    [kind |-> kind, name |-> "", bare |-> "", fields |-> <<>>, text |-> text]

quoted(s) == "\"" \o s \o "\""

render_field(f) ==
    f.k \o " = " \o
    (IF f.k = "extras"
     THEN "[" \o join(f.sep, [i \in 1..Len(f.v) |-> quoted(f.v[i])]) \o "]"
     ELSE IF f.k = "optional" THEN f.v[1]
     ELSE quoted(f.v[1]))

\* The line of pyproject.toml that declares d
render(d) ==
    IF d.kind = "bare" THEN d.name \o " = " \o quoted(d.bare)
    ELSE IF d.kind = "table"
    THEN d.name \o " = {"
         \o join(", ", [i \in 1..Len(d.fields) |-> render_field(d.fields[i])]) \o "}"
    ELSE d.text

Versions == {"^0.9.0", "*", ">=3.7.1", "<2.0", "1.2.3", ""}

ExtrasFields ==
    { Arr("extras", <<"all">>, ","),
      Arr("extras", <<"asyncpg", "aiomysql">>, ","),
      Arr("extras", <<"asyncpg", "aiomysql">>, ", ") }
PlatformFields == { Fld("platform", "linux"), Fld("platform", "darwin") }
SourceFields == { Fld("source", "jumping") }
OptionalFields == { Fld("optional", "true"), Fld("optional", "false") }
UrlField == Fld("url", "https://github.com/tiangolo/typer")

OptSeq(S) == {<<>>} \cup {<<x>> : x \in S}

\* The fields beside version, in the order poetry writes them and reversed
OtherFields ==
    UNION { { e \o p \o s \o o, o \o s \o p \o e } :
            <<e, p, s, o>> \in OptSeq(ExtrasFields) \X OptSeq(PlatformFields)
                               \X OptSeq(SourceFields) \X OptSeq(OptionalFields) }

\* the flag fields in the order poetry writes them, at least one
FlagFields ==
    { p \o s \o o :
      <<p, s, o>> \in OptSeq(PlatformFields) \X OptSeq(SourceFields)
                          \X OptSeq(OptionalFields) } \ {<<>>}

\* Inline tables with a version field: first, last, or between the extras and
\* the flag fields
VersionTables ==
    UNION { { <<Fld("version", v)>> \o r, r \o <<Fld("version", v)>> } :
            <<v, r>> \in Versions \X OtherFields }
    \cup { <<e, Fld("version", v)>> \o r :
           <<e, v, r>> \in ExtrasFields \X Versions \X FlagFields }

\* Inline tables of a direct URL reference
UrlTables ==
    { <<UrlField>> \o e \o p \o o :
      <<e, p, o>> \in OptSeq(ExtrasFields) \X OptSeq(PlatformFields)
                          \X OptSeq(OptionalFields) }

Names == {"typer", "python", "Python"}

\* Every single declaration
Entries ==
    { Bare(n, v) : <<n, v>> \in Names \X Versions }
    \cup { Table(n, t) : <<n, t>> \in Names \X (VersionTables \cup UrlTables) }

\* The lines of the lists of several lines
SmallLines ==
    { Raw("blank", "   "),
      Raw("comment", "# typer = \"^0.9.0\""),
      Raw("malformed", "[tool.isort]"),
      Raw("unquoted", "anyio ="),
      Bare("python", "^3.11"),
      Bare("ipython", "^8.15.0"),
      Bare("coveralls", "^3.3.1"),
      Bare("bumpversion", "*"),
      Table("gunicorn", <<Fld("version", "^21.2.0"), Fld("platform", "linux")>>),
      Table("orjson", <<Fld("platform", "linux"), Fld("version", "^3.9.7")>>),
      Table("uvicorn", <<Fld("version", "^0.23.2"), Fld("platform", "linux"),
                         Fld("optional", "true")>>) }

MaxLines == 3

RECURSIVE ListsUpTo(_, _)
ListsUpTo(S, n) ==
    IF n = 0 THEN {<<>>}
    ELSE LET L == ListsUpTo(S, n - 1)
         IN  L \cup { Append(l, x) : <<l, x>> \in { l \in L : Len(l) = n - 1 } \X S }

\* The declaration lists build_args is called on
DeclLists == { <<d>> : d \in Entries } \cup ListsUpTo(SmallLines, MaxLines)

\* The line lists of the repeated calls of build_args
CallLists ==
    { <<>>,
      <<Bare("ipython", "^8.15.0")>>,
      <<Bare("ipython", "^8.15.0"),
        Table("gunicorn", <<Fld("version", "^21.2.0"), Fld("platform", "linux")>>)>>,
      <<Table("orjson", <<Fld("platform", "linux"), Fld("version", "^3.9.7")>>),
        Table("gunicorn", <<Fld("version", "^21.2.0"), Fld("platform", "linux")>>)>>,
      <<Table("uvicorn", <<Fld("version", "^0.23.2"), Fld("optional", "true")>>),
        Bare("bumpversion", "*")>>,
      <<Bare("coveralls", "^3.3.1"), Raw("unquoted", "anyio =")>> }

MaxCalls == 3

\* The fields of the tables parse_value is called on
ValueFields ==
    ExtrasFields \cup PlatformFields \cup SourceFields \cup OptionalFields
    \cup { Fld("version", "^0.9.0"), Fld("version", ">=3.7.1,<4.0") }

MaxFields == 3

\* the fields of fs have different keys
DistinctKeys(fs) == \A i, j \in 1..Len(fs) : i # j => fs[i].k # fs[j].k

\* Inline tables of one to MaxFields fields, in every order
ValueTables ==
    { Table("typer", fs) :
      fs \in { l \in ListsUpTo(ValueFields, MaxFields) : l # <<>> /\ DistinctKeys(l) } }

\* what follows `name = ` in the line, as build_args passes it to parse_value
version_info_of(d) == strip(after(strip(render(d), Whitespace), "="), {" ", "\""})

\* ------------------------------------------------------------------------
\* The pyproject.toml texts get_args is called on
\* ------------------------------------------------------------------------
\* A document is [titles, bodies]: its sections after the [tool.poetry] table,
\* each a title line and the declarations of its body.

other_title == "[tool.isort]"

\* the dependency lines of the documents
BodyLines ==
    { Bare("ipython", "^8.15.0"),
      Bare("coveralls", "^3.3.1"),
      Table("gunicorn", <<Fld("version", "^21.2.0"), Fld("platform", "linux")>>),
      Table("orjson", <<Fld("platform", "linux"), Fld("version", "^3.9.7")>>),
      Table("uvicorn", <<Fld("version", "^0.23.2"), Fld("optional", "true")>>),
      Bare("anyio", "") }

\* the line of the sections that declare no dependencies
OtherBody == <<Bare("profile", "black")>>

Layouts ==
    { <<main_title>>,
      <<main_title, other_title>>,
      <<main_title, DevFlag_new>>,
      <<main_title, DevFlag_old>>,
      <<main_title, other_title, DevFlag_new>>,
      <<main_title, DevFlag_new, other_title>>,
      <<main_title, DevFlag_old, other_title>>,
      <<main_title, DevFlag_old, DevFlag_new>> }

MaxDocLines == 2

\* the dependency sections among the first i titles
DepSections(titles, i) == Cardinality({j \in 1..i : titles[j] # other_title})

\* the k-th of the pieces L[1..c1], L[c1+1..c2], L[c2+1..]
Piece(L, c1, c2, k) ==
    IF k = 1 THEN SubSeq(L, 1, c1)
    ELSE IF k = 2 THEN SubSeq(L, c1 + 1, c2)
    ELSE SubSeq(L, c2 + 1, Len(L))

\* the document of layout titles whose dependency sections share the lines L
DocOf(titles, L, c1, c2) ==
    LET n  == DepSections(titles, Len(titles))
        e1 == IF n = 1 THEN Len(L) ELSE c1
        e2 == IF n <= 2 THEN Len(L) ELSE c2
    IN  [titles |-> titles,
         bodies |-> [i \in 1..Len(titles) |->
                        IF titles[i] = other_title THEN OtherBody
                        ELSE Piece(L, e1, e2, DepSections(titles, i))]]

Docs ==
    UNION { { DocOf(t, L, c1, c2) : c1 \in 0..Len(L), c2 \in 0..Len(L) } :
            <<t, L>> \in Layouts \X ListsUpTo(BodyLines, MaxDocLines) }

RECURSIVE render_lines(_)
render_lines(ds) ==
    IF ds = <<>> THEN "" ELSE render(Head(ds)) \o "\n" \o render_lines(Tail(ds))

RECURSIVE render_sections(_, _)
render_sections(d, i) ==
    IF i > Len(d.titles) THEN ""
    ELSE d.titles[i] \o "\n" \o render_lines(d.bodies[i]) \o "\n"
         \o render_sections(d, i + 1)

\* the text of the document
render_doc(d) == "[tool.poetry]\nname = \"demo\"\n\n" \o render_sections(d, 1)

NoDoc == [titles |-> <<>>, bodies |-> <<>>]

\* ------------------------------------------------------------------------
\* BumpUp
\* ------------------------------------------------------------------------

\* repr(s) of a str that holds no quote character, as {s!r} formats it
repr(s) == "'" \o s \o "'"

\* BumpUp.PartChoices, in the order of the enumeration
PartChoices == <<"patch", "minor", "major">>

\* get_part's dict choices: str(i) and the name of the i-th part give the part
choices ==
    [k \in {ToString(i) : i \in DOMAIN PartChoices}
           \cup {PartChoices[i] : i \in DOMAIN PartChoices} |->
        PartChoices[CHOOSE i \in DOMAIN PartChoices : k \in {ToString(i), PartChoices[i]}]]

\* get_part(s): the part, or the echo of `Invalid part` and Exit(1)
get_part(s) ==
    IF s \in DOMAIN choices
    THEN [ret |-> choices[s], echo |-> <<>>, exc |-> [kind |-> "none", code |-> 0]]
    ELSE [ret |-> "", echo |-> <<"Invalid part: " \o repr(s)>>,
          exc |-> [kind |-> "Exit", code |-> 1]]

\* gen's choice of the part: the one given, else the one typed, else patch
gen_part(part, typed) ==
    IF part # "" THEN get_part(part)
    ELSE IF strip(typed, Whitespace) # "" THEN get_part(strip(typed, Whitespace))
    ELSE [ret |-> "patch", echo |-> <<>>, exc |-> [kind |-> "none", code |-> 0]]

\* gen's regular expression for bumpversion --parse
parse == "\"(?P<major>\\d+)\\.(?P<minor>\\d+)\\.(?P<patch>\\d+)\""

\* gen's command before its options
bump_cmd(version, part, filename) ==
    "bumpversion --parse " \o parse \o " --current-version=" \o repr(version)
        \o " " \o part \o " " \o filename

\* gen's command that tags a patch as well
BumpUp_gen_tag_always(version, part, filename, commit) ==
    IF commit
    THEN bump_cmd(version, part, filename) \o " --tag"
             \o " --commit && git push && git push --tags && git log -1"
    ELSE bump_cmd(version, part, filename) \o " --allow-dirty"

\* BumpUp.gen's command for the part chosen
BumpUp_gen(version, part, filename, commit) ==
    IF commit
    THEN bump_cmd(version, part, filename)
             \o (IF part # "patch" THEN " --tag" ELSE "")
             \o " --commit && git push && git push --tags && git log -1"
    ELSE bump_cmd(version, part, filename) \o " --allow-dirty"

\* ------------------------------------------------------------------------
\* LintCode
\* ------------------------------------------------------------------------

\* load_bool that takes every value that is set for true
load_bool_set(v, default) == IF v = <<>> \/ v[1] = "" THEN default ELSE TRUE

\* load_bool(name, default), v being os.getenv(name): <<>> for None
load_bool(v, default) ==
    IF v = <<>> \/ v[1] = "" THEN default
    ELSE lower(v[1]) \notin {"0", "false", "off", "no", "n"}

\* s * n
RECURSIVE times(_, _)
times(s, n) == IF n <= 0 THEN "" ELSE s \o times(s, n - 1)

\* to_cmd's tools after the check_only / NO_FIX / SKIP_MYPY branches
lint_tools(check_only, environ) ==
    LET tools == <<"isort", "black", "ruff --fix", "mypy">>
        fixed == IF check_only
                 THEN <<tools[1] \o " --check-only", tools[2] \o " --check --fast",
                        before(tools[3], " "), tools[4]>>
                 ELSE IF load_bool(environ["NO_FIX"], FALSE)
                 THEN [tools EXCEPT ![3] = before(tools[3], " ")]
                 ELSE tools
    IN  IF load_bool(environ["SKIP_MYPY"], FALSE)
        THEN SubSeq(fixed, 1, Len(fixed) - 1)
        ELSE fixed

\* what to_cmd adds to tools[0]: app_dir.name is <<>> when neither directory
\* exists; cwd is "app_dir", "root", or "below" the root by depth levels
src_option(app_dir) ==
    IF app_dir.name = <<>> THEN ""
    ELSE IF app_dir.cwd = "app_dir" THEN " --src=."
    ELSE IF app_dir.cwd = "root" THEN " --src=" \o app_dir.name[1]
    ELSE " --src=" \o times("../", app_dir.depth) \o app_dir.name[1]

\* lint_them.format(prefix, paths, *tools)
lint_them(prefix, paths, tools) ==
    join(" && ", [i \in 1..Len(tools) |-> prefix \o tools[i] \o " " \o paths])

\* LintCode.to_cmd(paths, check_only); venv is
\* is_venv() and check_call("black --version")
LintCode_to_cmd(paths, check_only, environ, app_dir, venv) ==
    lint_them(IF venv THEN "" ELSE "poetry run ",
              paths,
              [lint_tools(check_only, environ) EXCEPT ![1] = @ \o src_option(app_dir)])

\* ------------------------------------------------------------------------
\* GitTag
\* ------------------------------------------------------------------------

\* GitTag.gen
GitTag_gen(version, message, git_status) ==
    "git tag -a " \o version \o " -m " \o repr(message) \o " && git push --tags"
        \o (IF contains(git_status, "git push") THEN " && git push" ELSE "")

\* a check of the working tree that takes every tree for clean
is_clean_always(git_status) == TRUE

\* mark_tag's check: "working tree clean" in self.git_status
is_clean(git_status) == contains(git_status, "working tree clean")

\* what DryRun.run returns: it has no return statement
None == "None"

\* bool(x) of None or of a CompletedProcess
bool(x) == x # None

\* ------------------------------------------------------------------------
\* The state
\* ------------------------------------------------------------------------

VARIABLES
    pc,            \* build_args: "loop"; get_args: "get_args", "build_main",
                   \* "build_dev", "done" after gen_cmd; both: "returned", "raised"
    decl,          \* the declarations package_lines was written from
    package_lines, \* build_args's argument
    idx,           \* the lines build_args's loop has consumed
    args,          \* build_args's plain list
    specials,      \* build_args's flagged mapping, in insertion order
    echoed,        \* the notices echoed
    raised,        \* the exception that escaped, "none" if none
    doc,           \* the document toml_text was written from
    toml_text,     \* get_args's argument
    dev_flag,      \* get_args's dev_flag
    mains,         \* the lines parse_item returned for the main section
    devs,          \* the lines parse_item returned for the dev section
    prod_packs,    \* get_args's plain list of the main section
    dev_packs,     \* get_args's plain list of the dev section
    others,        \* get_args's list of flagged groups
    upgrade,       \* to_cmd's result, the command line gen_cmd returns
    calls,         \* the calls of build_args that ended before the current one
    table,         \* the inline table parse_value's argument was written from
    info,          \* parse_value's argument version_info
    field,         \* parse_value's argument key
    value,         \* parse_value's result
    cwd,           \* Path.cwd(), as its depth below the root directory
    manifests,     \* the depths of the ancestors of cwd that hold the file
    parent,        \* workdir's parent, as a depth
    tries,         \* the iterations workdir's loop has made
    work_dir,      \* what workdir returned: <<depth>>, or <<>> for None
    cmd,           \* exit_if_run_failed's argument cmd
    dry,           \* exit_if_run_failed's argument dry
    exit_flag,     \* exit_if_run_failed's argument _exit
    shell,         \* the commands _run_shell has run
    returncode,    \* r.returncode, the return code of the command that was run
    outcome,       \* how exit_if_run_failed ended, [kind, code]: kind is "none"
                   \* while it runs, then "returned", "SystemExit" or "Exit"
    commit,        \* BumpUp.commit
    part,          \* BumpUp.part
    typed,         \* what input() returns when BumpUp.gen asks for the part
    version,       \* what get_current_version() returns
    paths,         \* LintCode.to_cmd's argument paths
    check_only,    \* LintCode.to_cmd's argument check_only
    environ,       \* os.environ: <<>> for a name that is not set, <<v>> for v
    app_dir,       \* where the application directory is and where cwd is
    venv,          \* is_venv() and check_call("black --version")
    git_status,    \* GitTag.git_status, the output of `git status`
    message,       \* GitTag.message
    marked         \* what mark_tag returned: <<b>>, <<>> before it returns

buildVars == <<decl, package_lines, idx, args>>
argsVars == <<doc, toml_text, dev_flag, mains, devs, prod_packs, dev_packs, others,
              upgrade>>
valueVars == <<table, info, field, value>>
workVars == <<cwd, manifests, parent, tries, work_dir>>
runVars == <<cmd, dry, exit_flag, shell, returncode, outcome>>
bumpVars == <<commit, part, typed, version>>
lintVars == <<paths, check_only, environ, app_dir, venv>>
tagVars == <<git_status, message, marked>>
cliVars == <<bumpVars, lintVars, tagVars>>
otherVars == <<calls, valueVars, workVars, runVars, cliVars>>
vars == <<pc, decl, package_lines, idx, args, specials, echoed, raised,
          argsVars, otherVars>>

plan == [args |-> args, specials |-> specials, echo |-> echoed, exc |-> "none"]

\* empty_plan that keeps what the call before left
empty_plan_kept == [args |-> args, specials |-> specials, echo |-> echoed, exc |-> "none"]

\* args and specials as build_args starts
empty_plan == [args |-> <<>>, specials |-> <<>>, echo |-> <<>>, exc |-> "none"]

\* build_args(package_lines), lines being its argument: args and specials when exc = "none"; otherwise
\* the exception that escapes, and nothing is returned.
build_args(lines) == build_loop(empty_plan, lines)

\* The variables of the operations that are not running
NoBuild == decl = <<>> /\ package_lines = <<>> /\ idx = 0 /\ args = <<>>
NoPlan == specials = <<>> /\ echoed = <<>> /\ raised = "none"
NoArgs ==
    /\ doc = NoDoc
    /\ toml_text = ""
    /\ dev_flag = ""
    /\ mains = <<>>
    /\ devs = <<>>
    /\ prod_packs = <<>>
    /\ dev_packs = <<>>
    /\ others = <<>>
    /\ upgrade = ""
NoValue == table = <<>> /\ info = "" /\ field = "" /\ value = ""
NoWork == cwd = 0 /\ manifests = {} /\ parent = 0 /\ tries = 0 /\ work_dir = <<>>
NoRun ==
    /\ cmd = ""
    /\ dry = FALSE
    /\ exit_flag = FALSE
    /\ shell = <<>>
    /\ returncode = 0
    /\ outcome = [kind |-> "none", code |-> 0]
NoBump == commit = FALSE /\ part = "" /\ typed = "" /\ version = ""
NoEnv == [name \in {"NO_FIX", "SKIP_MYPY"} |-> <<>>]
NoLint ==
    /\ paths = ""
    /\ check_only = FALSE
    /\ environ = NoEnv
    /\ app_dir = [name |-> <<>>, cwd |-> "root", depth |-> 0]
    /\ venv = FALSE
NoTag == git_status = "" /\ message = "" /\ marked = <<>>
NoCli == NoBump /\ NoLint /\ NoTag

\* ------------------------------------------------------------------------
\* build_args as a process: one step per line
\* ------------------------------------------------------------------------

InitBuild ==
    /\ decl \in DeclLists
    /\ package_lines = [i \in 1..Len(decl) |-> render(decl[i])]
    /\ pc = "loop"
    /\ idx = 0
    /\ args = <<>>
    /\ specials = <<>>
    /\ echoed = <<>>
    /\ raised = "none"
    /\ NoArgs
    /\ calls = <<>>
    /\ NoValue /\ NoWork /\ NoRun /\ NoCli

\* The loop body on the next line, when it raises nothing
BuildLine ==
    /\ pc = "loop"
    /\ idx < Len(package_lines)
    /\ \E st \in {build_line(plan, package_lines[idx + 1])} :
           /\ st.exc = "none"
           /\ args' = st.args
           /\ specials' = st.specials
           /\ echoed' = st.echo
    /\ idx' = idx + 1
    /\ UNCHANGED <<pc, decl, package_lines, raised>>
    /\ UNCHANGED argsVars
    /\ UNCHANGED otherVars

\* The loop body on the next line, when it raises
BuildRaise ==
    /\ pc = "loop"
    /\ idx < Len(package_lines)
    /\ \E st \in {build_line(plan, package_lines[idx + 1])} :
           /\ st.exc # "none"
           /\ raised' = st.exc
    /\ pc' = "raised"
    /\ UNCHANGED <<decl, package_lines, idx, args, specials, echoed>>
    /\ UNCHANGED argsVars
    /\ UNCHANGED otherVars

\* return args, specials
BuildReturn ==
    /\ pc = "loop"
    /\ idx = Len(package_lines)
    /\ pc' = "returned"
    /\ UNCHANGED <<decl, package_lines, idx, args, specials, echoed, raised>>
    /\ UNCHANGED argsVars
    /\ UNCHANGED otherVars

NextBuild == BuildLine \/ BuildRaise \/ BuildReturn

SpecBuild == InitBuild /\ [][NextBuild]_vars

\* ------------------------------------------------------------------------
\* get_args as a process: the split, then its two calls of build_args
\* ------------------------------------------------------------------------

InitArgs ==
    /\ doc \in Docs
    /\ toml_text = render_doc(doc)
    /\ pc = "get_args"
    /\ dev_flag = ""
    /\ mains = <<>>
    /\ devs = <<>>
    /\ prod_packs = <<>>
    /\ dev_packs = <<>>
    /\ others = <<>>
    /\ upgrade = ""
    /\ NoPlan /\ NoBuild
    /\ calls = <<>>
    /\ NoValue /\ NoWork /\ NoRun /\ NoCli

\* get_args from its start to mains, devs = parse_item(...), parse_item(...)
SplitSections ==
    /\ pc = "get_args"
    /\ LET r == split_sections(toml_text)
       IN  /\ dev_flag' = r.dev_flag
           /\ mains' = r.mains
           /\ devs' = r.devs
    /\ pc' = "build_main"
    /\ UNCHANGED <<specials, echoed, raised, doc, toml_text, prod_packs, dev_packs, others>>
    /\ UNCHANGED buildVars
    /\ UNCHANGED <<upgrade, otherVars>>

\* prod_packs, specials = build_args(mains), and others extended by the groups
BuildMain ==
    /\ pc = "build_main"
    /\ \E r \in {build_args(mains)} :
           /\ echoed' = echoed \o r.echo
           /\ IF r.exc = "none"
              THEN /\ prod_packs' = r.args
                   /\ specials' = r.specials
                   /\ others' = others \o main_groups(r.specials)
                   /\ pc' = "build_dev"
                   /\ UNCHANGED raised
              ELSE /\ raised' = r.exc
                   /\ pc' = "raised"
                   /\ UNCHANGED <<prod_packs, specials, others>>
    /\ UNCHANGED <<doc, toml_text, dev_flag, mains, devs, dev_packs>>
    /\ UNCHANGED buildVars
    /\ UNCHANGED <<upgrade, otherVars>>

\* dev_packs, specials = build_args(devs), others extended by the groups with
\* dev_flag appended, and the return
BuildDev ==
    /\ pc = "build_dev"
    /\ \E r \in {build_args(devs)} :
           /\ echoed' = echoed \o r.echo
           /\ IF r.exc = "none"
              THEN /\ dev_packs' = r.args
                   /\ specials' = r.specials
                   /\ others' = others \o dev_groups(r.specials, dev_flag)
                   /\ pc' = "returned"
                   /\ UNCHANGED raised
              ELSE /\ raised' = r.exc
                   /\ pc' = "raised"
                   /\ UNCHANGED <<dev_packs, specials, others>>
    /\ UNCHANGED <<doc, toml_text, dev_flag, mains, devs, prod_packs>>
    /\ UNCHANGED buildVars
    /\ UNCHANGED <<upgrade, otherVars>>

\* gen_cmd: to_cmd on what get_args returned
GenCmd ==
    /\ pc = "returned"
    /\ upgrade' = to_cmd(prod_packs, dev_packs, others, dev_flag)
    /\ pc' = "done"
    /\ UNCHANGED <<specials, echoed, raised, doc, toml_text, dev_flag, mains, devs,
                   prod_packs, dev_packs, others>>
    /\ UNCHANGED buildVars
    /\ UNCHANGED otherVars

NextArgs == SplitSections \/ BuildMain \/ BuildDev \/ GenCmd

SpecArgs == InitArgs /\ [][NextArgs]_vars

\* ------------------------------------------------------------------------
\* build_args called again and again in one process
\* ------------------------------------------------------------------------

InitCalls ==
    /\ decl \in CallLists
    /\ package_lines = [i \in 1..Len(decl) |-> render(decl[i])]
    /\ pc = "loop"
    /\ idx = 0
    /\ args = <<>>
    /\ specials = <<>>
    /\ echoed = <<>>
    /\ raised = "none"
    /\ NoArgs
    /\ calls = <<>>
    /\ NoValue /\ NoWork /\ NoRun /\ NoCli

\* build_args has returned or raised, and is called again: args and specials
\* are made anew
NextCall ==
    /\ pc \in {"returned", "raised"}
    /\ Len(calls) + 1 < MaxCalls
    /\ calls' = Append(calls, [lines |-> package_lines, args |-> args,
                                specials |-> specials, raised |-> raised])
    /\ \E d \in CallLists :
          /\ decl' = d
          /\ package_lines' = [i \in 1..Len(d) |-> render(d[i])]
    /\ idx' = 0
    /\ args' = empty_plan.args
    /\ specials' = empty_plan.specials
    /\ echoed' = empty_plan.echo
    /\ raised' = "none"
    /\ pc' = "loop"
    /\ UNCHANGED <<argsVars, valueVars, workVars, runVars, cliVars>>

NextCalls == BuildLine \/ BuildRaise \/ BuildReturn \/ NextCall

SpecCalls == InitCalls /\ [][NextCalls]_vars

\* ------------------------------------------------------------------------
\* Project.get_work_dir: the search for the directory of the manifest
\* ------------------------------------------------------------------------
\* A directory on the path from the root to cwd is its depth: 0 is the root.

TOML_FILE == "pyproject.toml"

\* range(5): the directories workdir looks into
SearchLevels == 5

MaxDepth == 7

\* Path.parent that stays where it is
dir_parent_stay(d) == d

\* Path.parent: the root is its own parent
dir_parent(d) == IF d = 0 THEN 0 ELSE d - 1

\* the message of the exception get_work_dir raises
not_found(name) == name \o " not found! Make sure this is a poetry project."

InitWork ==
    /\ cwd \in 0..MaxDepth
    /\ manifests \in SUBSET (0..cwd)
    /\ parent = cwd
    /\ tries = 0
    /\ work_dir = <<>>
    /\ pc = "workdir"
    /\ raised = "none"
    /\ specials = <<>>
    /\ echoed = <<>>
    /\ NoBuild /\ NoArgs
    /\ calls = <<>>
    /\ NoValue /\ NoRun /\ NoCli

\* if parent.joinpath(name).exists(): return parent
WorkdirFound ==
    /\ pc = "workdir"
    /\ tries < SearchLevels
    /\ parent \in manifests
    /\ work_dir' = <<parent>>
    /\ pc' = "found"
    /\ UNCHANGED <<cwd, manifests, parent, tries, raised>>
    /\ UNCHANGED <<buildVars, specials, echoed, argsVars, calls, valueVars, runVars, cliVars>>

\* parent = parent.parent
WorkdirUp ==
    /\ pc = "workdir"
    /\ tries < SearchLevels
    /\ parent \notin manifests
    /\ parent' = dir_parent(parent)
    /\ tries' = tries + 1
    /\ UNCHANGED <<pc, cwd, manifests, work_dir, raised>>
    /\ UNCHANGED <<buildVars, specials, echoed, argsVars, calls, valueVars, runVars, cliVars>>

\* the loop is over: return None
WorkdirNone ==
    /\ pc = "workdir"
    /\ tries = SearchLevels
    /\ work_dir' = <<>>
    /\ pc' = "none"
    /\ UNCHANGED <<cwd, manifests, parent, tries, raised>>
    /\ UNCHANGED <<buildVars, specials, echoed, argsVars, calls, valueVars, runVars, cliVars>>

\* get_work_dir returns the path that is not None
GetWorkDirReturn ==
    /\ pc = "found"
    /\ pc' = "returned"
    /\ UNCHANGED <<workVars, raised>>
    /\ UNCHANGED <<buildVars, specials, echoed, argsVars, calls, valueVars, runVars, cliVars>>

\* raise Exception(f"{name} not found! Make sure this is a poetry project.")
GetWorkDirRaise ==
    /\ pc = "none"
    /\ raised' = "Exception: " \o not_found(TOML_FILE)
    /\ pc' = "raised"
    /\ UNCHANGED workVars
    /\ UNCHANGED <<buildVars, specials, echoed, argsVars, calls, valueVars, runVars, cliVars>>

NextWork ==
    WorkdirFound \/ WorkdirUp \/ WorkdirNone \/ GetWorkDirReturn \/ GetWorkDirRaise

SpecWork == InitWork /\ [][NextWork]_vars

\* ------------------------------------------------------------------------
\* exit_if_run_failed, called by DryRun.run on the command gen() returned
\* ------------------------------------------------------------------------

\* The commands the command classes generate
RunCommands ==
    { "",
      "poetry add \"typer@latest\"",
      "git tag -a 0.1.0 -m '' && git push --tags",
      "poetry export --without-hashes -o dev_requirements.txt && poetry run pip install -r dev_requirements.txt",
      "coverage run -m pytest -s && coverage report --omit=\"tests/*\" -m",
      "in_valid_command" }

MaxCode == 2

\* the return codes of a command: 0, the codes of a failure, -1 for a signal
ReturnCodes == (-1)..MaxCode

\* run_and_echo: echo(f"--> {cmd}")
echo_line(c) == "--> " \o c

\* CompletedProcess("", 1)
dry_result_failed == [args |-> "", returncode |-> 1]

\* CompletedProcess("", 0)
dry_result == [args |-> "", returncode |-> 0]

\* `if rc` that takes a negative code for a success
is_failure_positive(rc) == rc > 0

\* if rc := r.returncode
is_failure(rc) == rc # 0

InitRun ==
    /\ cmd \in RunCommands
    /\ dry \in BOOLEAN
    /\ exit_flag \in BOOLEAN
    /\ shell = <<>>
    /\ returncode = 0
    /\ outcome = [kind |-> "none", code |-> 0]
    /\ pc = "exit_if_run_failed"
    /\ echoed = <<>>
    /\ specials = <<>>
    /\ raised = "none"
    /\ NoBuild /\ NoArgs
    /\ calls = <<>>
    /\ NoValue /\ NoWork /\ NoCli

\* run_and_echo(cmd, dry=True): the echo, and no run
RunAndEcho ==
    /\ pc = "exit_if_run_failed"
    /\ echoed' = Append(echoed, echo_line(cmd))
    /\ pc' = "echoed"
    /\ UNCHANGED <<runVars, specials, raised>>
    /\ UNCHANGED <<buildVars, argsVars, calls, valueVars, workVars, cliVars>>

\* if dry: return CompletedProcess("", 0)
DryReturn ==
    /\ pc = "echoed"
    /\ dry
    /\ returncode' = dry_result.returncode
    /\ outcome' = [kind |-> "returned", code |-> dry_result.returncode]
    /\ pc' = "returned"
    /\ UNCHANGED <<cmd, dry, exit_flag, shell, echoed, specials, raised>>
    /\ UNCHANGED <<buildVars, argsVars, calls, valueVars, workVars, cliVars>>

\* r = _run_shell(cmd, env=env, **kw): the shell runs cmd and gives a code
RunShell ==
    /\ pc = "echoed"
    /\ ~dry
    /\ shell' = Append(shell, cmd)
    /\ \E rc \in ReturnCodes : returncode' = rc
    /\ pc' = "ran"
    /\ UNCHANGED <<cmd, dry, exit_flag, outcome, echoed, specials, raised>>
    /\ UNCHANGED <<buildVars, argsVars, calls, valueVars, workVars, cliVars>>

\* if rc: if _exit: sys.exit(rc)
SysExit ==
    /\ pc = "ran"
    /\ is_failure(returncode)
    /\ exit_flag
    /\ outcome' = [kind |-> "SystemExit", code |-> returncode]
    /\ pc' = "raised"
    /\ UNCHANGED <<cmd, dry, exit_flag, shell, returncode, echoed, specials, raised>>
    /\ UNCHANGED <<buildVars, argsVars, calls, valueVars, workVars, cliVars>>

\* if rc: raise Exit(rc)
RaiseExit ==
    /\ pc = "ran"
    /\ is_failure(returncode)
    /\ ~exit_flag
    /\ outcome' = [kind |-> "Exit", code |-> returncode]
    /\ pc' = "raised"
    /\ UNCHANGED <<cmd, dry, exit_flag, shell, returncode, echoed, specials, raised>>
    /\ UNCHANGED <<buildVars, argsVars, calls, valueVars, workVars, cliVars>>

\* return r
ReturnResult ==
    /\ pc = "ran"
    /\ ~is_failure(returncode)
    /\ outcome' = [kind |-> "returned", code |-> returncode]
    /\ pc' = "returned"
    /\ UNCHANGED <<cmd, dry, exit_flag, shell, returncode, echoed, specials, raised>>
    /\ UNCHANGED <<buildVars, argsVars, calls, valueVars, workVars, cliVars>>

NextRun == RunAndEcho \/ DryReturn \/ RunShell \/ SysExit \/ RaiseExit \/ ReturnResult

SpecRun == InitRun /\ [][NextRun]_vars

\* ------------------------------------------------------------------------
\* parse_value called on a line of the manifest or on its version_info
\* ------------------------------------------------------------------------

InitValue ==
    /\ table \in ValueTables
    /\ info \in {render(table), version_info_of(table)}
    /\ field \in {table.fields[i].k : i \in 1..Len(table.fields)}
    /\ value = ""
    /\ pc = "parse_value"
    /\ NoBuild /\ NoPlan /\ NoArgs
    /\ calls = <<>>
    /\ NoWork /\ NoRun /\ NoCli

ParseValue ==
    /\ pc = "parse_value"
    /\ value' = parse_value(info, field)
    /\ pc' = "returned"
    /\ UNCHANGED <<table, info, field>>
    /\ UNCHANGED <<buildVars, specials, echoed, raised, argsVars>>
    /\ UNCHANGED <<calls, workVars, runVars, cliVars>>

NextValue == ParseValue

SpecValue == InitValue /\ [][NextValue]_vars

\* ------------------------------------------------------------------------
\* BumpUp.gen as a process: the echo of the version, the part, the command
\* ------------------------------------------------------------------------

\* the versions `poetry version -s` prints
ProjectVersions == {"0.1.0", "1.2.3"}

\* the parts given on the command line; "" asks for one
GivenParts == {"", "patch", "minor", "major", "1", "2", "3", "invalid value", "Patch"}

\* what is typed at the prompt
TypedParts == {"", " ", "1", "minor", " 3 ", "x"}

InitBump ==
    /\ commit \in BOOLEAN
    /\ part \in GivenParts
    /\ typed \in (IF part = "" THEN TypedParts ELSE {""})
    /\ version \in ProjectVersions
    /\ pc = "gen"
    /\ echoed = <<>>
    /\ specials = <<>>
    /\ raised = "none"
    /\ NoBuild /\ NoArgs
    /\ calls = <<>>
    /\ NoValue /\ NoWork /\ NoRun /\ NoLint /\ NoTag

\* echo(f"Current version(@{filename}): {version}")
BumpEcho ==
    /\ pc = "gen"
    /\ echoed' = Append(echoed, "Current version(@" \o TOML_FILE \o "): " \o version)
    /\ pc' = "part"
    /\ UNCHANGED <<bumpVars, runVars, lintVars, tagVars>>
    /\ UNCHANGED <<buildVars, specials, raised, argsVars, calls, valueVars, workVars>>

\* self.part = part, when get_part raises nothing
BumpPart ==
    /\ pc = "part"
    /\ \E r \in {gen_part(part, typed)} :
           /\ r.exc.kind = "none"
           /\ part' = r.ret
    /\ pc' = "command"
    /\ UNCHANGED <<commit, typed, version, echoed, runVars, lintVars, tagVars>>
    /\ UNCHANGED <<buildVars, specials, raised, argsVars, calls, valueVars, workVars>>

\* get_part's echo(f"Invalid part: {s!r}") and raise Exit(1)
BumpInvalid ==
    /\ pc = "part"
    /\ \E r \in {gen_part(part, typed)} :
           /\ r.exc.kind # "none"
           /\ echoed' = echoed \o r.echo
           /\ outcome' = r.exc
    /\ pc' = "raised"
    /\ UNCHANGED <<bumpVars, cmd, dry, exit_flag, shell, returncode, lintVars, tagVars>>
    /\ UNCHANGED <<buildVars, specials, raised, argsVars, calls, valueVars, workVars>>

\* return cmd
BumpCommand ==
    /\ pc = "command"
    /\ cmd' = BumpUp_gen(version, part, TOML_FILE, commit)
    /\ pc' = "returned"
    /\ UNCHANGED <<bumpVars, dry, exit_flag, shell, returncode, outcome, echoed>>
    /\ UNCHANGED <<lintVars, tagVars>>
    /\ UNCHANGED <<buildVars, specials, raised, argsVars, calls, valueVars, workVars>>

NextBump == BumpEcho \/ BumpPart \/ BumpInvalid \/ BumpCommand

SpecBump == InitBump /\ [][NextBump]_vars

\* ------------------------------------------------------------------------
\* LintCode.to_cmd
\* ------------------------------------------------------------------------

\* the paths LintCode.gen passes
LintPaths == {".", "tests", "fast_tort_cli tests"}

\* os.getenv(name): not set, empty, and values of both kinds
EnvValues == {<<>>, <<"">>, <<"0">>, <<"1">>, <<"False">>, <<"true">>}

MaxBelow == 2

\* the application directory (none, the project's name, or app) and cwd
AppDirs ==
    {[name |-> <<>>, cwd |-> "root", depth |-> 0]}
    \cup {[name |-> <<n>>, cwd |-> c, depth |-> 0] :
              n \in {"fast_tort_cli", "app"}, c \in {"app_dir", "root"}}
    \cup {[name |-> <<n>>, cwd |-> "below", depth |-> k] :
              n \in {"fast_tort_cli", "app"}, k \in 1..MaxBelow}

InitLint ==
    /\ paths \in LintPaths
    /\ check_only \in BOOLEAN
    /\ environ \in [{"NO_FIX", "SKIP_MYPY"} -> EnvValues]
    /\ app_dir \in AppDirs
    /\ venv \in BOOLEAN
    /\ pc = "to_cmd"
    /\ echoed = <<>>
    /\ specials = <<>>
    /\ raised = "none"
    /\ NoBuild /\ NoArgs
    /\ calls = <<>>
    /\ NoValue /\ NoWork /\ NoRun /\ NoBump /\ NoTag

\* return cmd
LintToCmd ==
    /\ pc = "to_cmd"
    /\ cmd' = LintCode_to_cmd(paths, check_only, environ, app_dir, venv)
    /\ pc' = "returned"
    /\ UNCHANGED <<dry, exit_flag, shell, returncode, outcome, echoed>>
    /\ UNCHANGED <<bumpVars, lintVars, tagVars>>
    /\ UNCHANGED <<buildVars, specials, raised, argsVars, calls, valueVars, workVars>>

NextLint == LintToCmd

SpecLint == InitLint /\ [][NextLint]_vars

\* ------------------------------------------------------------------------
\* GitTag.run as a process: mark_tag, through exit_if_run_failed, the hint
\* ------------------------------------------------------------------------

\* what `git status` prints: clean, clean and ahead of the remote, changed,
\* changed and ahead of the remote
StatusTexts ==
    { "On branch main\nnothing to commit, working tree clean",
      "On branch main\nYour branch is ahead of 'origin/main' by 1 commit.\n  (use \"git push\" to publish your local commits)\n\nnothing to commit, working tree clean",
      "On branch main\nChanges not staged for commit:\n\tmodified:   README.md\n\nno changes added to commit",
      "On branch main\nYour branch is ahead of 'origin/main' by 1 commit.\n  (use \"git push\" to publish your local commits)\n\nUntracked files:\n\tfoo.txt\n" }

TagMessages == {"", "release"}

publish_hint == "You may want to publish package:\n poetry publish --build"

commit_error == "ERROR: Please run git commit to make sure working tree is clean!"

InitTag ==
    /\ git_status \in StatusTexts
    /\ message \in TagMessages
    /\ version \in ProjectVersions
    /\ dry \in BOOLEAN
    /\ marked = <<>>
    /\ cmd = ""
    /\ exit_flag = FALSE
    /\ shell = <<>>
    /\ returncode = 0
    /\ outcome = [kind |-> "none", code |-> 0]
    /\ commit = FALSE /\ part = "" /\ typed = ""
    /\ pc = "run"
    /\ echoed = <<>>
    /\ specials = <<>>
    /\ raised = "none"
    /\ NoBuild /\ NoArgs
    /\ calls = <<>>
    /\ NoValue /\ NoWork /\ NoLint

\* mark_tag on a tree that is not clean: run_and_echo("git status")
TagStatus ==
    /\ pc = "run"
    /\ ~is_clean(git_status)
    /\ echoed' = Append(echoed, echo_line("git status"))
    /\ shell' = Append(shell, "git status")
    /\ \E rc \in ReturnCodes : returncode' = rc
    /\ pc' = "status"
    /\ UNCHANGED <<cmd, dry, exit_flag, outcome, bumpVars, lintVars, tagVars>>
    /\ UNCHANGED <<buildVars, specials, raised, argsVars, calls, valueVars, workVars>>

\* echo("ERROR: ..."); return False
TagError ==
    /\ pc = "status"
    /\ echoed' = Append(echoed, commit_error)
    /\ marked' = <<FALSE>>
    /\ pc' = "marked"
    /\ UNCHANGED <<runVars, bumpVars, lintVars, git_status, message>>
    /\ UNCHANGED <<buildVars, specials, raised, argsVars, calls, valueVars, workVars>>

\* mark_tag on a clean tree: super().run() calls
\* exit_if_run_failed(self.gen(), _exit=self._exit, dry=self.dry)
TagGen ==
    /\ pc = "run"
    /\ is_clean(git_status)
    /\ cmd' = GitTag_gen(version, message, git_status)
    /\ pc' = "exit_if_run_failed"
    /\ UNCHANGED <<dry, exit_flag, shell, returncode, outcome, echoed>>
    /\ UNCHANGED <<bumpVars, lintVars, tagVars>>
    /\ UNCHANGED <<buildVars, specials, raised, argsVars, calls, valueVars, workVars>>

\* exit_if_run_failed returned; DryRun.run returns None to mark_tag:
\* return bool(super().run())
TagMarked ==
    /\ pc = "returned"
    /\ marked' = <<bool(None)>>
    /\ pc' = "marked"
    /\ UNCHANGED <<runVars, echoed, bumpVars, lintVars, git_status, message>>
    /\ UNCHANGED <<buildVars, specials, raised, argsVars, calls, valueVars, workVars>>

\* if self.mark_tag() and not self.dry: echo("You may want to publish ...")
TagHint ==
    /\ pc = "marked"
    /\ echoed' = IF marked[1] /\ ~dry THEN Append(echoed, publish_hint) ELSE echoed
    /\ pc' = "done"
    /\ UNCHANGED <<runVars, bumpVars, lintVars, tagVars>>
    /\ UNCHANGED <<buildVars, specials, raised, argsVars, calls, valueVars, workVars>>

NextTag ==
    \/ TagStatus \/ TagError \/ TagGen
    \/ RunAndEcho \/ DryReturn \/ RunShell \/ RaiseExit \/ ReturnResult
    \/ TagMarked \/ TagHint

SpecTag == InitTag /\ [][NextTag]_vars

\* ------------------------------------------------------------------------
\* build_args on lines whose name is written as a quoted key
\* ------------------------------------------------------------------------

\* Lines with a quoted key, the same lines with a bare key, and a line that
\* raises
QuotedLines ==
    { Bare(quoted("python"), "^3.11"),
      Bare("python", "^3.11"),
      Bare(quoted("typer"), "^0.9.0"),
      Bare("typer", "^0.9.0"),
      Bare(quoted("anyio"), "*"),
      Table(quoted("gunicorn"), <<Fld("version", "^21.2.0"), Fld("platform", "linux")>>),
      Raw("malformed", "\"typer\"") }

MaxQuoted == 2

InitQuoted ==
    /\ decl \in ListsUpTo(QuotedLines, MaxQuoted)
    /\ package_lines = [i \in 1..Len(decl) |-> render(decl[i])]
    /\ pc = "loop"
    /\ idx = 0
    /\ args = <<>>
    /\ specials = <<>>
    /\ echoed = <<>>
    /\ raised = "none"
    /\ NoArgs
    /\ calls = <<>>
    /\ NoValue /\ NoWork /\ NoRun /\ NoCli

SpecQuoted == InitQuoted /\ [][NextBuild]_vars

\* ------------------------------------------------------------------------
\* What a declaration says, read off the declaration and not off its line
\* ------------------------------------------------------------------------

IsEntry(d) == d.kind \in {"bare", "table"}

\* the spellings of the runtime marker among Names
NameIsPython(d) == IsEntry(d) /\ d.name \in {"python", "Python", "PYTHON"}

HasField(d, k) == \E i \in 1..Len(d.fields) : d.fields[i].k = k
FieldOf(d, k) == d.fields[CHOOSE i \in 1..Len(d.fields) : d.fields[i].k = k]

HasVersion(d) == d.kind = "bare" \/ HasField(d, "version")
DeclVersion(d) == IF d.kind = "bare" THEN d.bare ELSE FieldOf(d, "version").v[1]

IsUrlRef(d) == d.kind = "table" /\ d.fields # <<>> /\ d.fields[1].k = "url"
IsWildcard(d) == IsEntry(d) /\ HasVersion(d) /\ DeclVersion(d) = "*"
IsConstraint(d) ==
    /\ IsEntry(d) /\ HasVersion(d) /\ DeclVersion(d) # ""
    /\ Head(DeclVersion(d)) \in {">", "<", "0", "1", "2", "3", "4", "5", "6", "7", "8", "9"}
IsCaret(d) ==
    IsEntry(d) /\ HasVersion(d) /\ DeclVersion(d) # "" /\ Head(DeclVersion(d)) = "^"

\* a line without a version at all: name = "" or name =
IsVersionless(d) == (d.kind = "bare" /\ d.bare = "") \/ d.kind = "unquoted"

IsSkipped(d) == NameIsPython(d) \/ IsUrlRef(d) \/ IsWildcard(d) \/ IsConstraint(d)

\* an entry that is to be upgraded
Upgradable(d) == IsEntry(d) /\ ~IsSkipped(d) /\ ~IsVersionless(d)

\* "name@latest" or "name[e1,e2]@latest", the extras joined by a comma
StrictToken(d) ==
    quoted(d.name
           \o (IF HasField(d, "extras")
               THEN "[" \o join(",", FieldOf(d, "extras").v) \o "]" ELSE "")
           \o "@latest")

\* the same with the extras separated as the declaration separates them
WrittenToken(d) ==
    quoted(d.name
           \o (IF HasField(d, "extras")
               THEN "[" \o join(FieldOf(d, "extras").sep, FieldOf(d, "extras").v) \o "]"
               ELSE "")
           \o "@latest")

\* the flags of d in the order platform, source, optional; "" when it has none
DeclKey(d) ==
    join(" ",
         (IF HasField(d, "platform")
          THEN <<"--platform=" \o FieldOf(d, "platform").v[1]>> ELSE <<>>)
         \o (IF HasField(d, "source")
             THEN <<"--source=" \o FieldOf(d, "source").v[1]>> ELSE <<>>)
         \o (IF HasField(d, "optional") /\ FieldOf(d, "optional").v[1] = "true"
             THEN <<"--optional">> ELSE <<>>))

\* ------------------------------------------------------------------------
\* What a step of the loop did
\* ------------------------------------------------------------------------

\* the loop is about to handle a line, and the declaration of that line
AtLine == pc = "loop" /\ idx < Len(package_lines)
cur == decl[idx + 1]

\* the step consumed the line without raising
Stepped == pc' = "loop" /\ idx' = idx + 1 /\ raised' = "none"
NoToken == args' = args /\ specials' = specials

RECURSIVE GroupTokens(_)
GroupTokens(sp) == IF sp = <<>> THEN 0 ELSE Len(sp[1].v) + GroupTokens(Tail(sp))
TokenCount == Len(args) + GroupTokens(specials)

\* the group of specials' the step added an item to
NewGroup ==
    CHOOSE j \in 1..Len(specials') : j > Len(specials) \/ specials'[j] # specials[j]
\* the item the step added, and the key it added it under ("" for the plain list)
NewItem ==
    IF args' # args THEN args'[Len(args')]
    ELSE specials'[NewGroup].v[Len(specials'[NewGroup].v)]
NewKey == IF args' # args THEN "" ELSE specials'[NewGroup].k
OneToken ==
    /\ Len(args') + GroupTokens(specials') = TokenCount + 1
    /\ \/ args' = Append(args, NewItem) /\ specials' = specials
       \/ args' = args /\ specials' # specials

\* the items stored under key k ("" for the plain list)
ItemsUnder(k) ==
    IF k = "" THEN args
    ELSE IF \E j \in 1..Len(specials) : specials[j].k = k
    THEN specials[CHOOSE j \in 1..Len(specials) : specials[j].k = k].v
    ELSE <<>>

Occurrences(xs, x) == Cardinality({i \in 1..Len(xs) : xs[i] = x})

\* ------------------------------------------------------------------------
\* Claims
\* ------------------------------------------------------------------------

\* C1: a line whose name is the runtime marker `python`, in any letter case and
\* with any version spec, is consumed without raising and adds no token to the
\* plain list nor to any flagged group.
C1_PythonIsSkipped ==
    [][(AtLine /\ NameIsPython(cur)) => (Stepped /\ NoToken)]_vars

C1_Witness ==
    /\ pc = "returned" /\ Len(decl) = 1
    /\ decl[1].name = "Python" /\ decl[1].kind = "table" /\ IsCaret(decl[1])
    /\ HasField(decl[1], "platform")
    /\ args = <<>> /\ specials = <<>>

\* C2: once build_args has ended on a list that holds a line which, trimmed, is
\* not empty, is no comment and has no `=`, it has raised ParseError.
C2_MalformedRaisesParseError ==
    (pc # "loop" /\ \E i \in 1..Len(decl) : decl[i].kind = "malformed")
        => raised = "ParseError"

\* C3: a line whose version spec, bare or in the version field of an inline
\* table, starts with `>`, `<` or a digit is consumed without raising and adds
\* no token, whatever other fields the table has.
C3_ConstraintIsSkipped ==
    [][(AtLine /\ IsConstraint(cur)) => (Stepped /\ NoToken)]_vars

C3_Witness ==
    /\ pc = "returned" /\ Len(decl) = 1
    /\ decl[1].name = "typer" /\ decl[1].kind = "table"
    /\ Len(decl[1].fields) = 3 /\ decl[1].fields[1].k = "extras"
    /\ decl[1].fields[2] = Fld("version", ">=3.7.1")
    /\ decl[1].fields[3] = Fld("optional", "true")
    /\ args = <<>> /\ specials = <<>> /\ Len(echoed) = 1

\* C4: a line whose version spec is the wildcard `*`, bare or in the version
\* field of an inline table, adds no token; a line whose version is a caret
\* spec, bare or in an inline table, adds exactly one token (unless its name is
\* the runtime marker, which is decided before the version is looked at).
C4_WildcardSkippedCaretKept ==
    [][/\ (AtLine /\ IsWildcard(cur)) => (Stepped /\ NoToken)
       /\ (AtLine /\ IsCaret(cur) /\ ~NameIsPython(cur)) => (Stepped /\ OneToken)]_vars

C4_Witness ==
    /\ pc = "returned" /\ Len(decl) = 2
    /\ IsWildcard(decl[1]) /\ ~NameIsPython(decl[1])
    /\ IsCaret(decl[2]) /\ decl[2].kind = "table"
    /\ TokenCount = 1 /\ Len(echoed) = 1

\* C5: a line whose spec is an inline table with `url` as its first field adds
\* no token, whatever other fields follow.
C5_UrlIsSkipped ==
    [][(AtLine /\ IsUrlRef(cur)) => (Stepped /\ NoToken)]_vars

C5_Witness ==
    /\ pc = "returned" /\ Len(decl) = 1
    /\ IsUrlRef(decl[1]) /\ ~NameIsPython(decl[1]) /\ Len(decl[1].fields) > 1
    /\ args = <<>> /\ specials = <<>> /\ Len(echoed) = 1

\* C6 as claimed: every entry that is not skipped adds exactly the token
\* "name@latest", or "name[e1,e2]@latest" with its extras joined by a comma
\* when it has an extras field.
C6_TokenCommaJoined ==
    [][(AtLine /\ Upgradable(cur)) => (Stepped /\ OneToken /\ NewItem = StrictToken(cur))]_vars

\* C6 amended: every entry that is not skipped adds exactly the token
\* "name@latest", or "name[...]@latest" when it has an extras field, the
\* brackets holding the text between the brackets of the extras array with the
\* quotes removed: extras written `"a", "b"` give `[a, b]`, extras written
\* `"a","b"` give `[a,b]`. An entry without extras gets no brackets.
C6_TokenAsWritten ==
    [][(AtLine /\ Upgradable(cur)) => (Stepped /\ OneToken /\ NewItem = WrittenToken(cur))]_vars

C6_Witness ==
    /\ pc = "returned" /\ Len(decl) = 1
    /\ Upgradable(decl[1]) /\ HasField(decl[1], "extras")
    /\ FieldOf(decl[1], "extras").sep = ", " /\ ~HasField(decl[1], "optional")
    /\ ~HasField(decl[1], "platform") /\ ~HasField(decl[1], "source")
    /\ args = <<"\"typer[asyncpg, aiomysql]@latest\"">>

\* C7: every entry that is not skipped is stored under the key made of
\* --platform=<value>, --source=<value> and --optional (the last only for
\* `optional = true`), in that order and joined by a space, and in the plain
\* list when none applies; the keys of the mapping are pairwise different.
C7_FlagKey ==
    /\ [](\A i, j \in 1..Len(specials) : specials[i].k = specials[j].k => i = j)
    /\ [][(AtLine /\ Upgradable(cur)) => (Stepped /\ OneToken /\ NewKey = DeclKey(cur))]_vars

C7_Witness ==
    /\ pc = "returned" /\ Len(decl) = 3
    /\ Len(specials) = 2
    /\ specials[1] = [k |-> "--platform=linux --optional", v |-> <<"\"uvicorn@latest\"">>]
    /\ specials[2] = [k |-> "--platform=linux",
                      v |-> <<"\"gunicorn@latest\"", "\"orjson@latest\"">>]

\* C8: while no line raises, the plan is a partition of the entries to upgrade
\* among the lines consumed: it holds as many tokens as there are such entries,
\* each entry's token lies under the entry's key as often as the lines declare
\* it, and no key maps to an empty list.
C8_Partition ==
    pc \in {"loop", "returned"} =>
        /\ TokenCount = Cardinality({i \in 1..idx : Upgradable(decl[i])})
        /\ \A i \in 1..idx :
              Upgradable(decl[i]) =>
                  Occurrences(ItemsUnder(DeclKey(decl[i])), WrittenToken(decl[i]))
                      = Cardinality({j \in 1..idx : decl[j] = decl[i]})
        /\ \A j \in 1..Len(specials) : specials[j].v # <<>>

C8_Witness ==
    /\ pc = "returned" /\ Len(decl) = 3
    /\ decl[1].kind = "blank" /\ decl[2] = decl[3] /\ DeclKey(decl[2]) = "--platform=linux"
    /\ args = <<>> /\ Len(specials) = 1 /\ Len(specials[1].v) = 2

\* ------------------------------------------------------------------------
\* What a document says
\* ------------------------------------------------------------------------

\* the declaration a line of a document was written from
DeclOf(line) == CHOOSE d \in BodyLines \cup {OtherBody[1]} : render(d) = line
DeclsOf(lines) == [i \in 1..Len(lines) |-> DeclOf(lines[i])]

RenderedLines(ds) == [i \in 1..Len(ds) |-> render(ds[i])]

\* every line of the sections of the document, in the order of the text
RECURSIVE DocLinesFrom(_, _)
DocLinesFrom(d, i) ==
    IF i > Len(d.titles) THEN <<>>
    ELSE RenderedLines(d.bodies[i]) \o DocLinesFrom(d, i + 1)

HasSection(d, title) == \E i \in 1..Len(d.titles) : d.titles[i] = title
\* the lines between the header `title` and the next header
BodyOf(d, title) ==
    IF HasSection(d, title)
    THEN RenderedLines(d.bodies[CHOOSE i \in 1..Len(d.titles) : d.titles[i] = title])
    ELSE <<>>

\* the header of the development section get_args is to read
DevTitleOf(d) == IF HasSection(d, DevFlag_new) THEN DevFlag_new ELSE DevFlag_old

\* xs is ys with some elements left out
RECURSIVE IsSubseq(_, _)
IsSubseq(xs, ys) ==
    IF xs = <<>> THEN TRUE
    ELSE IF ys = <<>> THEN FALSE
    ELSE IF Head(xs) = Head(ys) THEN IsSubseq(Tail(xs), Tail(ys))
    ELSE IsSubseq(xs, Tail(ys))

\* the tokens of the entries of ds to upgrade under key k, in the order of ds
RECURSIVE TokensUnder(_, _)
TokensUnder(ds, k) ==
    IF ds = <<>> THEN <<>>
    ELSE (IF Upgradable(Head(ds)) /\ DeclKey(Head(ds)) = k
          THEN <<WrittenToken(Head(ds))>> ELSE <<>>)
         \o TokensUnder(Tail(ds), k)

\* the keys of the flagged entries of ds, each once, in the order in which
\* they first appear; seen are the keys met before
RECURSIVE KeysFrom(_, _)
KeysFrom(ds, seen) ==
    IF ds = <<>> THEN <<>>
    ELSE LET k == DeclKey(Head(ds))
         IN  IF Upgradable(Head(ds)) /\ k # "" /\ k \notin seen
             THEN <<k>> \o KeysFrom(Tail(ds), seen \cup {k})
             ELSE KeysFrom(Tail(ds), seen)

\* the mapping and the groups the declarations ds are to give
MappingOf(ds) ==
    LET ks == KeysFrom(ds, {})
    IN  [j \in 1..Len(ks) |-> [k |-> ks[j], v |-> TokensUnder(ds, ks[j])]]
GroupsOf(ds, tail) ==
    LET ks == KeysFrom(ds, {})
    IN  [j \in 1..Len(ks) |-> <<ks[j]>> \o TokensUnder(ds, ks[j]) \o tail]

\* C9: the lines parse_item returns are in the order of the text; the plain
\* list build_args returns for them holds the tokens in the order of the lines,
\* its mapping holds the keys in the order in which they first appear and under
\* each key the tokens in the order of the lines; others lists the groups of
\* the main section and then those of the dev section in that same order.
C9_FirstSeenOrder ==
    /\ IsSubseq(mains \o devs, DocLinesFrom(doc, 1))
    /\ pc = "build_dev" =>
          /\ prod_packs = TokensUnder(DeclsOf(mains), "")
          /\ specials = MappingOf(DeclsOf(mains))
          /\ others = GroupsOf(DeclsOf(mains), <<>>)
    /\ pc = "returned" =>
          /\ prod_packs = TokensUnder(DeclsOf(mains), "")
          /\ dev_packs = TokensUnder(DeclsOf(devs), "")
          /\ specials = MappingOf(DeclsOf(devs))
          /\ others = GroupsOf(DeclsOf(mains), <<>>) \o GroupsOf(DeclsOf(devs), <<dev_flag>>)

C9_Witness ==
    /\ pc = "returned"
    /\ mains = <<render(Table("orjson", <<Fld("platform", "linux"), Fld("version", "^3.9.7")>>)),
                 render(Table("gunicorn", <<Fld("version", "^21.2.0"), Fld("platform", "linux")>>))>>
    /\ others = << <<"--platform=linux", "\"orjson@latest\"", "\"gunicorn@latest\"">> >>

\* C10: the lines parse_item returns to get_args are the lines between the
\* header of the section and the next header: those of the main section for
\* mains, those of the development section (none without one) for devs.
C10_BodyEndsAtNextHeader ==
    pc # "get_args" =>
        /\ mains = BodyOf(doc, main_title)
        /\ devs = BodyOf(doc, DevTitleOf(doc))

\* C11: get_args reads the development section under the new-style header
\* when the text after the production header has one and under the legacy
\* header only otherwise (the lines of that section are the dev lines whenever
\* it has any), and the dev flag is "--group dev" exactly when the new-style
\* header is there, "--dev" otherwise.
C11_NewHeaderFirst ==
    pc # "get_args" =>
        /\ dev_flag = (IF HasSection(doc, DevFlag_new) THEN "--group dev" ELSE "--dev")
        /\ BodyOf(doc, DevTitleOf(doc)) # <<>> => devs = BodyOf(doc, DevTitleOf(doc))

\* both headers in the text, each with a line: the new-style section is read
C11_Witness ==
    /\ pc = "returned"
    /\ doc.titles = <<main_title, DevFlag_old, DevFlag_new>>
    /\ doc.bodies[2] # <<>>
    /\ devs = RenderedLines(doc.bodies[3])
    /\ devs # <<>>
    /\ dev_flag = "--group dev"

\* the document has no development section
NoDevSection(d) == ~HasSection(d, DevFlag_new) /\ ~HasSection(d, DevFlag_old)

\* the declarations of the production section of the document
MainDecls(d) == d.bodies[CHOOSE i \in 1..Len(d.titles) : d.titles[i] = main_title]

\* C12: when the text has no development section, get_args returns an empty
\* dev list and no group that carries the dev flag, and its production list
\* and groups are those of the lines of the production section alone.
C12_NoDevSection ==
    (pc = "returned" /\ NoDevSection(doc)) =>
        /\ dev_packs = <<>>
        /\ \A g \in 1..Len(others) : others[g][Len(others[g])] # dev_flag
        /\ prod_packs = TokensUnder(MainDecls(doc), "")
        /\ others = GroupsOf(MainDecls(doc), <<>>)

\* how often sub occurs in s
CountOf(s, sub) ==
    Cardinality({i \in 1..(Len(s) - Len(sub) + 1) : SubSeq(s, i, i + Len(sub) - 1) = sub})

endswith(s, p) == Len(s) >= Len(p) /\ SubSeq(s, Len(s) - Len(p) + 1, Len(s)) = p

\* the commands the plan get_args returned asks for
PlanCommands ==
    (IF prod_packs # <<>> THEN 1 ELSE 0) + (IF dev_packs # <<>> THEN 1 ELSE 0)
    + Len(others)

\* C13: the command line of a plan that asks for k >= 1 commands holds k times
\* `poetry add` and k - 1 times the connector ` && `, and neither begins nor
\* ends with the connector; a plan with main tokens only gives one command
\* and no connector.
C13_CommandsAndConnectors ==
    (pc = "done" /\ PlanCommands >= 1) =>
        /\ CountOf(upgrade, "poetry add ") = PlanCommands
        /\ CountOf(upgrade, " && ") = PlanCommands - 1
        /\ ~startswith(upgrade, " && ")
        /\ ~endswith(upgrade, " && ")

\* the commands of the command line, in order
IsCommand(piece) == piece # ""
Commands == SelectSeq(split(upgrade, " && "), IsCommand)

\* the flagged groups the production and the development lines give
MainGroupCount == Len(KeysFrom(DeclsOf(mains), {}))
DevGroupCount == Len(KeysFrom(DeclsOf(devs), {}))
\* the plain commands of the command line
PlainCount == (IF prod_packs # <<>> THEN 1 ELSE 0) + (IF dev_packs # <<>> THEN 1 ELSE 0)

\* C14: the dev flag marks exactly what comes from the development section.
\* The groups of the production section come first and none holds the flag,
\* those of the development section follow and each ends with it, a key of
\* both sections giving two groups; in the command line the dev plain command
\* has the flag right after `poetry add`, the command of a development group
\* ends with it, and no other command holds it.
C14_DevFlagPlacement ==
    pc = "done" =>
        /\ Len(others) = MainGroupCount + DevGroupCount
        /\ \A g \in 1..Len(others) :
              IF g <= MainGroupCount
              THEN \A i \in 1..Len(others[g]) : others[g][i] # dev_flag
              ELSE /\ others[g][Len(others[g])] = dev_flag
                   /\ \A i \in 1..(Len(others[g]) - 1) : others[g][i] # dev_flag
        /\ Len(Commands) = PlainCount + Len(others)
        /\ prod_packs # <<>> => ~contains(Commands[1], dev_flag)
        /\ dev_packs # <<>> =>
              startswith(Commands[PlainCount], "poetry add " \o dev_flag \o " \"")
        /\ \A g \in 1..Len(others) :
              IF g <= MainGroupCount
              THEN ~contains(Commands[PlainCount + g], dev_flag)
              ELSE /\ endswith(Commands[PlainCount + g], "\" " \o dev_flag)
                   /\ CountOf(Commands[PlainCount + g], dev_flag) = 1

\* the same key in both sections: two groups, the second with the flag
C14_Witness ==
    /\ pc = "done"
    /\ Len(others) = 2
    /\ others[1][1] = others[2][1]
    /\ others[1][Len(others[1])] # dev_flag
    /\ others[2][Len(others[2])] = dev_flag
    /\ endswith(upgrade, "\" " \o dev_flag)

\* a dev plain command beside a production command
C14_WitnessPlain ==
    /\ pc = "done"
    /\ prod_packs # <<>>
    /\ dev_packs # <<>>
    /\ Len(Commands) = 2

\* the field of the table parse_value was asked for
AskedField == FieldOf(table, field)

\* C15: for a field with an array value parse_value returns what is written
\* between the brackets of that field with the double quotes removed, whatever
\* fields stand before or after it.
C15_ArrayValue ==
    (pc = "returned" /\ table # <<>> /\ field = "extras") =>
        /\ value = join(AskedField.sep, AskedField.v)
        /\ value = replace(before(after(info, "extras = ["), "]"), "\"", "")

\* the array between two other fields
C15_Witness ==
    /\ pc = "returned"
    /\ table # <<>>
    /\ Len(table.fields) = 3
    /\ table.fields[1].k = "version"
    /\ table.fields[2] = Arr("extras", <<"asyncpg", "aiomysql">>, ",")
    /\ field = "extras"
    /\ value = "asyncpg,aiomysql"

\* C16: for a field with a quoted string value parse_value returns the text
\* between the quotes, for a field with a bare token the token, which ends at
\* the next comma or at the closing brace; the result has no quote and no
\* space around it.
C16_StringAndBareValue ==
    (pc = "returned" /\ table # <<>> /\ field # "extras") =>
        /\ value = AskedField.v[1]
        /\ ~contains(value, "\"")
        /\ value = strip(value, Whitespace)

\* a bare token as the last field, after a quoted string with a comma in it
C16_Witness ==
    /\ pc = "returned"
    /\ table # <<>>
    /\ Len(table.fields) >= 2
    /\ table.fields[Len(table.fields) - 1] = Fld("version", ">=3.7.1,<4.0")
    /\ table.fields[Len(table.fields)] = Fld("optional", "true")
    /\ field = "optional"
    /\ value = "true"

\* a quoted string that holds a comma
C16_WitnessQuoted ==
    /\ pc = "returned"
    /\ table # <<>>
    /\ field = "version"
    /\ value = ">=3.7.1,<4.0"

\* C17: a call of build_args that has ended gave what every earlier call on
\* the same line list gave, whatever calls came between them, and its result
\* holds at most one token per line of its own list.
C17_SameListSameResult ==
    pc \in {"returned", "raised"} =>
        /\ \A c \in 1..Len(calls) :
              calls[c].lines = package_lines =>
                  /\ calls[c].raised = raised
                  /\ raised = "none" =>
                        calls[c].args = args /\ calls[c].specials = specials
        /\ TokenCount <= Len(package_lines)

\* the same list, with a plain and a flagged entry, before and after a call
\* on another list
C17_Witness ==
    /\ pc = "returned"
    /\ Len(calls) = 2
    /\ calls[1].lines = package_lines
    /\ calls[2].lines # package_lines
    /\ calls[2].args # <<>>
    /\ args # <<>>
    /\ specials # <<>>

\* the directories the search is to look into: cwd and its parents, five in all
Window == {d \in 0..cwd : cwd - d < 5}
\* the deepest of a non-empty set of directories
Nearest(S) == CHOOSE d \in S : \A e \in S : e <= d

\* C18: the search looks into cwd and then into its parents in turn, into five
\* directories at most; it returns the nearest of them that holds the file,
\* and when none of them does workdir returns None and get_work_dir raises
\* the exception that says the file was not found, also when a directory
\* farther up holds the file.
C18_BoundedSearch ==
    /\ pc = "workdir" =>
          /\ tries <= 5
          /\ parent = (IF cwd >= tries THEN cwd - tries ELSE 0)
          /\ \A d \in manifests : d > parent => d \notin Window
    /\ pc \in {"found", "returned"} =>
          /\ Window \cap manifests # {}
          /\ work_dir = <<Nearest(Window \cap manifests)>>
          /\ raised = "none"
    /\ pc \in {"none", "raised"} =>
          /\ Window \cap manifests = {}
          /\ work_dir = <<>>
    /\ pc = "raised" => raised = "Exception: pyproject.toml not found! Make sure this is a poetry project."

\* the file is six levels up: not found
C18_Witness ==
    /\ pc = "raised"
    /\ cwd = 6
    /\ manifests = {0, 1}
    /\ tries = 5

\* two of the five directories hold the file: the nearer one is returned
C18_WitnessNearest ==
    /\ pc = "returned"
    /\ cwd = 6
    /\ manifests = {2, 4}
    /\ work_dir = <<4>>

\* exit_if_run_failed has ended
RunEnded == pc \in {"returned", "raised"}

C20_FailedRunExits ==
    ~dry =>
        /\ shell # <<>> => (shell = <<cmd>> /\ echoed = <<"--> " \o cmd>>)
        /\ RunEnded => shell = <<cmd>>
        /\ (RunEnded /\ returncode = 0) => outcome = [kind |-> "returned", code |-> 0]
        /\ (RunEnded /\ returncode # 0) =>
              /\ pc = "raised"
              /\ outcome = [kind |-> (IF exit_flag THEN "SystemExit" ELSE "Exit"),
                            code |-> returncode]

\* a command killed by a signal, with _exit set
C20_Witness ==
    /\ ~dry
    /\ exit_flag
    /\ pc = "raised"
    /\ returncode = -1
    /\ outcome = [kind |-> "SystemExit", code |-> -1]

\* a failed command without _exit
C20_WitnessExit ==
    /\ ~dry
    /\ ~exit_flag
    /\ pc = "raised"
    /\ returncode = 1
    /\ outcome.kind = "Exit"

\* ------------------------------------------------------------------------
\* C21
\* ------------------------------------------------------------------------

\* the words of a command line
Words(s) == {split(s, " ")[i] : i \in 1..Len(split(s, " "))}

\* the command line has the option opt as one of its words
HasOption(s, opt) == opt \in Words(s)

\* the part gen was asked for: the one given, else the one typed
AskedPart == IF part # "" THEN part ELSE strip(typed, Whitespace)

KnownParts == {"patch", "minor", "major", "1", "2", "3"}

BumpCommitTail == " --commit && git push && git push --tags && git log -1"

\* C21: the command BumpUp.gen returns has exactly one of the options
\* --commit and --allow-dirty.  With commit it ends with
\* ` --commit && git push && git push --tags && git log -1` and has the option
\* --tag (a word of its own, which the --tags of git push is not) exactly when
\* the part is not patch; without commit it ends with ` --allow-dirty` and
\* holds neither --tag nor a git push.  A part that is none of patch, minor,
\* major, 1, 2, 3 makes gen echo `Invalid part` and raise Exit(1), and no
\* command is generated.
C21_CommitOrAllowDirty ==
    /\ (pc = "returned" /\ commit) =>
           /\ endswith(cmd, BumpCommitTail)
           /\ HasOption(cmd, "--commit") /\ ~HasOption(cmd, "--allow-dirty")
           /\ HasOption(cmd, "--tag") <=> part # "patch"
    /\ (pc = "returned" /\ ~commit) =>
           /\ endswith(cmd, " --allow-dirty")
           /\ HasOption(cmd, "--allow-dirty") /\ ~HasOption(cmd, "--commit")
           /\ ~contains(cmd, "--tag")
           /\ ~contains(cmd, "git push")
    /\ (pc = "part" /\ AskedPart \notin KnownParts \cup {""}) =>
           /\ ~ENABLED BumpPart
           /\ ENABLED BumpInvalid
    /\ pc \in {"command", "returned"} => part \in {"patch", "minor", "major"}
    /\ pc = "raised" =>
           /\ AskedPart \notin KnownParts
           /\ cmd = ""
           /\ startswith(echoed[Len(echoed)], "Invalid part")
           /\ outcome = [kind |-> "Exit", code |-> 1]

\* a minor bump with commit is tagged, and a patch with commit is not
C21_Witness ==
    /\ pc = "returned" /\ commit /\ part = "minor"
    /\ HasOption(cmd, "--tag")

C21_WitnessPatch ==
    /\ pc = "returned" /\ commit /\ part = "patch"
    /\ ~HasOption(cmd, "--tag")

C21_WitnessInvalid ==
    /\ pc = "raised" /\ part = "invalid value"
    /\ cmd = ""

\* ------------------------------------------------------------------------
\* C22
\* ------------------------------------------------------------------------

\* the environment variable is set to a value that means yes
Truthy(name) == environ[name] \in {<<"1">>, <<"true">>}

\* the commands of the chain
LintCommands == split(cmd, " && ")

\* command c is prefix p, a tool with its options, a space and the paths
ToolOf(c, p) == SubSeq(c, Len(p) + 1, Len(c) - Len(paths) - 1)

RunsTool(c, p) == startswith(c, p) /\ endswith(c, " " \o paths)

\* a tool with or without the --src option to_cmd gives isort
WithSrc(t, tool) == t = tool \/ startswith(t, tool \o " --src=")

\* C22: LintCode.to_cmd chains isort, black, ruff and mypy in that order with
\* ` && `, every tool after the same prefix and before the same paths.  With
\* check_only the tools are `isort --check-only`, `black --check --fast` and
\* ruff without --fix; without check_only ruff has --fix unless NO_FIX is
\* truthy; mypy is last unless SKIP_MYPY is truthy, and then it is dropped
\* and the other three are kept.
C22_LintChain ==
    pc = "returned" =>
        /\ Len(LintCommands) = (IF Truthy("SKIP_MYPY") THEN 3 ELSE 4)
        /\ \E p \in {"", "poetry run "} :
               /\ \A i \in 1..Len(LintCommands) : RunsTool(LintCommands[i], p)
               /\ WithSrc(ToolOf(LintCommands[1], p),
                          IF check_only THEN "isort --check-only" ELSE "isort")
               /\ ToolOf(LintCommands[2], p)
                      = (IF check_only THEN "black --check --fast" ELSE "black")
               /\ ToolOf(LintCommands[3], p)
                      = (IF check_only \/ Truthy("NO_FIX") THEN "ruff" ELSE "ruff --fix")
               /\ ~Truthy("SKIP_MYPY") => ToolOf(LintCommands[4], p) = "mypy"

\* a check with mypy skipped and NO_FIX set to a value that means no
C22_Witness ==
    /\ pc = "returned"
    /\ check_only /\ Truthy("SKIP_MYPY") /\ environ["NO_FIX"] = <<"0">>
    /\ Len(LintCommands) = 3

\* no check, NO_FIX set to a value that means no: ruff fixes
C22_WitnessFix ==
    /\ pc = "returned"
    /\ ~check_only /\ environ["NO_FIX"] = <<"False">>
    /\ contains(cmd, "ruff --fix")

\* ------------------------------------------------------------------------
\* C23
\* ------------------------------------------------------------------------

\* the output of git status does not say that the working tree is clean
DirtyTree == ~contains(git_status, "working tree clean")

Echoes(sub) == \E i \in 1..Len(echoed) : contains(echoed[i], sub)

Executes(sub) == \E i \in 1..Len(shell) : contains(shell[i], sub)

\* C23: when the output of git status lacks `working tree clean`, GitTag.run
\* neither generates, echoes nor executes the `git tag -a` command; it echoes
\* the git status command and an ERROR notice that asks to commit, and it
\* does not echo the publish hint.  This holds in dry and in non-dry mode.
C23_DirtyTreeNoTag ==
    DirtyTree =>
        /\ cmd = ""
        /\ ~Echoes("git tag -a")
        /\ ~Executes("git tag -a")
        /\ ~Echoes("poetry publish --build")
        /\ pc \notin {"exit_if_run_failed", "echoed", "ran", "returned", "raised"}
        /\ pc = "done" =>
               /\ Len(echoed) = 2
               /\ echoed[1] = "--> git status"
               /\ startswith(echoed[2], "ERROR: Please run git commit")
               /\ marked = <<FALSE>>

\* run ended on a tree that is not clean, in dry mode
C23_Witness ==
    /\ DirtyTree /\ dry
    /\ pc = "done"
    /\ Echoes("ERROR")

\* the same out of dry mode
C23_WitnessNotDry ==
    /\ DirtyTree /\ ~dry
    /\ pc = "done"
    /\ Echoes("ERROR")

\* ------------------------------------------------------------------------
\* C26
\* ------------------------------------------------------------------------

\* C26: when the working tree is clean and the generated tag command is run
\* out of dry mode and ends with return code 0, mark_tag returns true and
\* GitTag.run echoes the publish hint `poetry publish --build`; the hint is
\* never echoed in dry mode or after a tag command that failed.
C26_PublishHint ==
    /\ (pc = "done" /\ ~DirtyTree /\ ~dry /\ Executes("git tag -a") /\ returncode = 0) =>
           /\ marked = <<TRUE>>
           /\ Echoes("poetry publish --build")
    /\ (dry \/ outcome.kind = "Exit") => ~Echoes("poetry publish --build")

\* the half of C26 the code keeps: no hint in dry mode or after a failure
C26_NoHintOtherwise ==
    (dry \/ outcome.kind = "Exit") => ~Echoes("poetry publish --build")

\* run ended after a tag command that was run and gave 0
C26_Reached ==
    /\ pc = "done" /\ ~DirtyTree /\ ~dry
    /\ Executes("git tag -a") /\ returncode = 0
    /\ marked = <<FALSE>>
    /\ ~Echoes("poetry publish --build")

\* ------------------------------------------------------------------------
\* C24
\* ------------------------------------------------------------------------

\* the declaration with the quote characters around its name taken off
Unquoted(d) == [d EXCEPT !.name = strip(d.name, {"\""})]

HasQuotedName(d) == IsEntry(d) /\ startswith(d.name, "\"")

\* C24: the line parser trims whitespace and quote characters from the name
\* as well as from the version spec, so a line whose name is written in
\* quotes is treated like the line with the bare name: skipped when the bare
\* name is the runtime marker or the version spec makes it a Skip, and
\* otherwise upgraded with the token of the bare name.
C24_QuotedNameTrimmed ==
    [][(AtLine /\ HasQuotedName(cur)) =>
          /\ Stepped
          /\ IsSkipped(Unquoted(cur)) => NoToken
          /\ Upgradable(Unquoted(cur)) =>
                 OneToken /\ NewItem = WrittenToken(Unquoted(cur))]_vars

\* the version spec is trimmed of its quotes: a quoted wildcard is a wildcard
C24_VersionTrimmed ==
    [][(AtLine /\ IsEntry(cur) /\ IsWildcard(cur)) => (Stepped /\ NoToken)]_vars

\* a line with the runtime marker in quotes was consumed
C24_Reached ==
    /\ pc = "returned" /\ Len(decl) = 1
    /\ decl[1] = Bare(quoted("python"), "^3.11")
    /\ args = <<"\"\"python\"@latest\"">>

\* ------------------------------------------------------------------------
\* C25
\* ------------------------------------------------------------------------

\* the lines consumed so far that satisfy P
Consumed(P(_)) == Cardinality({i \in 1..idx : P(decl[i])})

\* a Skip that no_need_upgrade decides: the name is not the runtime marker
IsClassifiedSkip(d) == IsSkipped(d) /\ ~NameIsPython(d)

\* C25: the notices build_args has echoed are as many as the entries it has
\* classified Skip (runtime marker, external URL, wildcard, explicit
\* constraint); an entry that is upgraded gives no notice.
C25_NoticePerSkip ==
    pc \in {"loop", "returned"} => Len(echoed) = Consumed(IsSkipped)

\* what the code keeps: one notice for every Skip but the runtime marker's
C25_NoticePerClassifiedSkip ==
    pc \in {"loop", "returned"} => Len(echoed) = Consumed(IsClassifiedSkip)

\* the runtime marker was skipped and nothing was echoed
C25_Reached ==
    /\ pc = "returned" /\ Len(decl) = 1
    /\ NameIsPython(decl[1])
    /\ echoed = <<>>

\* ------------------------------------------------------------------------
\* C27
\* ------------------------------------------------------------------------

\* C27: build_args is total up to ParseError: on every list, the lines with
\* `=` and an empty version spec (`foo =`, `foo = ""`) and the inline tables
\* with an empty version field included, it returns a plan or raises
\* ParseError, and no other exception escapes.
C27_TotalUpToParseError ==
    /\ raised \in {"none", "ParseError"}
    /\ pc = "raised" => raised = "ParseError"

\* an inline table with an empty version field is upgraded
C27_EmptyVersionField ==
    [][(AtLine /\ cur.kind = "table" /\ ~NameIsPython(cur) /\ ~IsUrlRef(cur)
          /\ HasVersion(cur) /\ DeclVersion(cur) = "")
       => (Stepped /\ OneToken)]_vars

\* a line with an empty version spec ended build_args with IndexError
C27_Reached ==
    /\ pc = "raised" /\ raised = "IndexError"
    /\ IsVersionless(decl[idx + 1])

====
